---- MODULE Spec2Model ----
(***************************************************************************)
(* umoci raw runtime-config: cmd/umoci/raw-runtime-config.go, rawConfig.   *)
(* One invocation resolves a tag in an OCI image layout to a manifest and  *)
(* writes a runtime configuration to a destination file.  Each statement   *)
(* group of rawConfig is one action; the deferred Close calls run in the   *)
(* Return action.  The image layout (index and blobs) and the destination  *)
(* file persist between invocations, everything else is per invocation.    *)
(***************************************************************************)
EXTENDS Integers, Sequences, FiniteSets, TLC

\* ---------------------------------------------------------------- bounds
\* Longest index.json (number of tagged descriptors) of an image layout.
MaxEntries == 2
\* Number of consecutive invocations of the command on the same layout.
MaxRuns == 2

\* ------------------------------------------------------------- constants
MetaVersion == "2"
MediaTypeImageManifest == "application/vnd.oci.image.manifest.v1+json"
MediaTypeImageIndex == "application/vnd.oci.image.index.v1+json"
MediaTypeImageLayer == "application/vnd.oci.image.layer.v1.tar"

\* Tags a user may ask for, and tags an index entry may carry.
Names == {"latest", "v1"}

\* The blobs an index entry may point to: the declared media type of the
\* descriptor, whether the blob is present in the store, and whether its
\* bytes decode as the JSON structure of the declared type.
Digests == {"m-ok", "m-walk", "m-uid", "m-bad", "i-ok", "i-bad", "layer", "gone"}

BlobTable ==
    [d \in Digests |->
        CASE d \in {"m-ok", "m-walk", "m-uid"}
                         -> [mediaType |-> MediaTypeImageManifest, present |-> TRUE,  wellFormed |-> TRUE]
          [] d = "m-bad" -> [mediaType |-> MediaTypeImageManifest, present |-> TRUE,  wellFormed |-> FALSE]
          [] d = "i-ok"  -> [mediaType |-> MediaTypeImageIndex,    present |-> TRUE,  wellFormed |-> TRUE]
          [] d = "i-bad" -> [mediaType |-> MediaTypeImageIndex,    present |-> TRUE,  wellFormed |-> FALSE]
          [] d = "layer" -> [mediaType |-> MediaTypeImageLayer,    present |-> TRUE,  wellFormed |-> FALSE]
          [] OTHER       -> [mediaType |-> MediaTypeImageManifest, present |-> FALSE, wellFormed |-> FALSE]]

\* Image layouts: the sequences of tagged index entries up to MaxEntries.
Entries == [name : Names, digest : Digests]

Indexes == UNION {[1..n -> Entries] : n \in 0..MaxEntries}

\* What the image path holds: a valid layout, a directory that is no layout
\* (dir.Open fails), or a layout whose index cannot be parsed.
Layouts == {"ok", "notlayout", "badindex"}

\* --uid-map directives given on the command line.
IdmapArgs ==
    { <<>>,
      <<[container |-> 0, host |-> 1000, size |-> 1]>>,
      <<[container |-> 0, host |-> 1000, size |-> 0]>>,
      <<[container |-> 0, host |-> 1000, size |-> 2],
        [container |-> 1, host |-> 2000, size |-> 1]>> }

\* --rootfs values: flag absent, an existing tree, a non-existent directory.
RootfsArgs == {"", "/rootfs", "/nonexistent"}

\* --------------------------------------------------------------- records
Nil == [kind |-> "nil", arg |-> ""]

Err(kind, arg) == [kind |-> kind, arg |-> arg]

NoPath == [Walk |-> <<>>]

NoData == [type |-> "nil", digest |-> ""]

NoBlob == [Descriptor |-> [digest |-> "", mediaType |-> ""], Data |-> NoData]

OldDoc == [image |-> "old", rootfs |-> "", user |-> 0, complete |-> TRUE]

AbsentFile == [exists |-> FALSE, data |-> <<>>]

OldFile == [exists |-> TRUE, data |-> <<OldDoc>>]

VARIABLES
    layout,              \* what imagePath holds
    index,               \* index.json of the layout: tagged descriptors
    dest,                \* the file at configPath
    run,                 \* number of the current invocation
    pc,                  \* position of the invocation in rawConfig
    fromName,            \* ctx.App.Metadata["--image-tag"]
    meta,                \* umoci.Meta
    engine,              \* "none", "open", "closed"
    fromDescriptorPaths, \* result of ResolveReference
    manifestBlob,        \* result of FromDescriptor
    manifest,            \* manifestBlob.Data asserted as ispec.Manifest
    configFile,          \* "none", "open", "closed"
    defers,              \* deferred calls, most recent first
    err,                 \* the error rawConfig returns
    rootfsArg,           \* ctx.String("rootfs") as read by the generation call
    trace,               \* stages executed by this invocation, in order
    storeOps,            \* operations issued against the store, in order
    calls,               \* per-invocation call counters
    dest0,               \* the destination file when the invocation began
    genMeta              \* meta at the time generation was invoked

vars ==
    <<layout, index, dest, run, pc, fromName, meta, engine, fromDescriptorPaths,
      manifestBlob, manifest, configFile, defers, err, rootfsArg, trace, storeOps,
      calls, dest0, genMeta>>

world == <<layout, index>>

NoCalls ==
    [open |-> 0, engineClose |-> 0, create |-> 0, unpack |-> 0, write |-> 0,
     configClose |-> 0, blobClose |-> 0]

NoMeta == [Version |-> "", From |-> NoPath, MapOptions |-> [UIDMappings |-> <<>>]]

\* ------------------------------------------------------ pure operations
Range(s) == {s[i] : i \in DOMAIN s}

Count(s, x) == Cardinality({i \in DOMAIN s : s[i] = x})

\* rawConfig, lines 79-80: var meta umoci.Meta; meta.Version = umoci.MetaVersion
InitMeta_NoVersion == NoMeta

InitMeta == [NoMeta EXCEPT !.Version = MetaVersion]

\* umoci.ParseIdmapOptions: every directive is well formed (non-negative,
\* size > 0) and no two directives overlap on the container side.
WellFormedMapping(d) == d.host >= 0 /\ d.container >= 0 /\ d.size > 0

Overlap(a, b) ==
    a.container < b.container + b.size /\ b.container < a.container + a.size

ParseIdmapOptions(arg) ==
    IF /\ \A i \in DOMAIN arg : WellFormedMapping(arg[i])
       /\ \A i, j \in DOMAIN arg : i < j => ~Overlap(arg[i], arg[j])
    THEN [ok |-> TRUE, opts |-> [UIDMappings |-> arg]]
    ELSE [ok |-> FALSE, opts |-> [UIDMappings |-> <<>>]]

\* dir.Open: fails when the path holds no image layout.
OpenOk(l) == l # "notlayout"

\* The descriptor an index entry carries for a digest.
DescriptorOf(d) == [digest |-> d, mediaType |-> BlobTable[d].mediaType]

\* casext ResolveReference: the descriptor paths of the index entries tagged
\* name, in index order; an error when the index cannot be read.
ResolveReference(l, idx, name) ==
    LET m == SelectSeq(idx, LAMBDA e : e.name = name)
    IN  IF l = "badindex"
        THEN [ok |-> FALSE, paths |-> <<>>]
        ELSE [ok |-> TRUE,
              paths |-> [i \in 1..Len(m) |-> [Walk |-> <<DescriptorOf(m[i].digest)>>]]]

\* DescriptorPath.Descriptor(): the terminal descriptor of the path.
Descriptor(path) == path.Walk[Len(path.Walk)]

\* rawConfig, lines 100-106: the two checks on the number of paths.
CountOutcome_NoZeroCheck(paths) ==
    IF Len(paths) # 1 THEN "tag is ambiguous" ELSE "ok"

CountOutcome_PickFirst(paths) ==
    IF Len(paths) = 0 THEN "tag not found" ELSE "ok"

CountOutcome(paths) ==
    IF Len(paths) = 0 THEN "tag not found"
    ELSE IF Len(paths) # 1 THEN "tag is ambiguous"
    ELSE "ok"

\* The media types casext decodes on fetch, and the Go type of the result.
ParsedTypes == {MediaTypeImageManifest, MediaTypeImageIndex}

DataType(mt) ==
    IF mt = MediaTypeImageManifest THEN "ispec.Manifest"
    ELSE IF mt = MediaTypeImageIndex THEN "ispec.Index"
    ELSE "io.Reader"

\* casext FromDescriptor: reads the blob and, for the media types it knows,
\* decodes it; it returns the decoded content with the declared media type.
\* A missing blob and a blob that does not decode are both its error.
FromDescriptor(desc) ==
    LET b == BlobTable[desc.digest]
    IN  IF ~b.present
        THEN [ok |-> FALSE, cause |-> "get blob", blob |-> NoBlob]
        ELSE IF desc.mediaType \in ParsedTypes /\ ~b.wellFormed
        THEN [ok |-> FALSE, cause |-> "parse", blob |-> NoBlob]
        ELSE [ok |-> TRUE, cause |-> "",
              blob |-> [Descriptor |-> desc,
                        Data |-> [type |-> DataType(desc.mediaType), digest |-> desc.digest]]]

\* rawConfig, line 115: manifestBlob.Descriptor.MediaType != MediaTypeImageManifest
MediaTypeSupported_AlsoIndex(blob) ==
    blob.Descriptor.mediaType \in {MediaTypeImageManifest, MediaTypeImageIndex}

MediaTypeSupported(blob) == blob.Descriptor.mediaType = MediaTypeImageManifest

\* rawConfig, line 120: manifestBlob.Data.(ispec.Manifest)
IsManifest(data) == data.type = "ispec.Manifest"

\* os.Create: creates the file or truncates it; fails when it cannot.
osCreate_NoTruncate(file, creatable) ==
    IF creatable
    THEN [ok |-> TRUE, file |-> [exists |-> TRUE, data |-> file.data]]
    ELSE [ok |-> FALSE, file |-> file]

osCreate(file, creatable) ==
    IF creatable
    THEN [ok |-> TRUE, file |-> [exists |-> TRUE, data |-> <<>>]]
    ELSE [ok |-> FALSE, file |-> file]

\* What a decoded manifest holds that generation reads: whether its layer
\* descriptor sequence is well formed, and the user its config declares.
ManifestTable ==
    [d \in {"m-ok", "m-walk", "m-uid"} |->
        [layersOk |-> d # "m-walk", uid |-> IF d = "m-uid" THEN 5 ELSE 1000]]

\* Mapping application: no directive is the identity mapping; otherwise the
\* host id is translated by the directive whose host range holds it, and an
\* id outside every range cannot be mapped.
Mappable(uid, maps) ==
    maps = <<>> \/ \E i \in DOMAIN maps :
                      maps[i].host <= uid /\ uid < maps[i].host + maps[i].size

MapID(uid, maps) ==
    IF maps = <<>>
    THEN uid
    ELSE LET i == CHOOSE k \in DOMAIN maps :
                      maps[k].host <= uid /\ uid < maps[k].host + maps[k].size
         IN  maps[i].container + (uid - maps[i].host)

\* The secondary filesystem is readable when absent or an existing tree.
RootfsReadable(rootfs) == rootfs \in {"", "/rootfs"}

\* layer.UnpackRuntimeJSON: checks the secondary filesystem, walks the layer
\* sequence, applies the mapping, and only then, with the whole document
\* built, writes it once to the open file.  sinkOk is whether that write
\* goes through; a failed write leaves a partial serialization behind.
UnpackRuntimeJSON(file, rootfs, m, mapOptions, sinkOk) ==
    LET t == ManifestTable[m.digest]
        doc == [image |-> m.digest, rootfs |-> rootfs,
                user |-> MapID(t.uid, mapOptions.UIDMappings), complete |-> sinkOk]
        fail(c) == [ok |-> FALSE, cause |-> c, file |-> file]
    IN  IF ~RootfsReadable(rootfs) THEN fail("SecondaryFsUnavailable")
        ELSE IF ~t.layersOk THEN fail("LayerWalkError")
        ELSE IF ~Mappable(t.uid, mapOptions.UIDMappings)
        THEN fail("MappingApplicationError")
        ELSE [ok |-> sinkOk, cause |-> IF sinkOk THEN "" ELSE "SinkError",
              file |-> [file EXCEPT !.data = Append(@, doc)]]

\* rawConfig, lines 94, 113, 131: the deferred Close calls.
DeferEngineClose_Forgotten(d) == d

DeferEngineClose(d) == <<"engine.Close">> \o d

DeferBlobClose(d) == <<"manifestBlob.Close">> \o d

DeferConfigClose_Forgotten(d) == d

DeferConfigClose(d) == <<"configFile.Close">> \o d

\* The stages of rawConfig in source order.
StageOrder ==
    <<"parse", "open", "resolve", "count", "fetch", "mediatype", "assert",
      "create", "generate">>

\* ---------------------------------------------------------------- state
Init ==
    /\ layout \in Layouts
    /\ index \in (IF layout = "ok" THEN Indexes ELSE {<<>>})
    /\ dest \in {AbsentFile, OldFile}
    /\ run = 1
    /\ pc = "start"
    /\ fromName = ""
    /\ meta = NoMeta
    /\ engine = "none"
    /\ fromDescriptorPaths = <<>>
    /\ manifestBlob = NoBlob
    /\ manifest = NoData
    /\ configFile = "none"
    /\ defers = <<>>
    /\ err = Nil
    /\ rootfsArg = ""
    /\ trace = <<>>
    /\ storeOps = <<>>
    /\ calls = NoCalls
    /\ dest0 = dest
    /\ genMeta = NoMeta

\* A return statement: the error is set and the deferred calls are next.
Fail(e) == pc' = "return" /\ err' = e

\* rawConfig, lines 75-80: read the arguments, set meta.Version.
Begin ==
    /\ pc = "start"
    /\ \E name \in Names : fromName' = name
    /\ meta' = InitMeta
    /\ dest0' = dest
    /\ pc' = "parse"
    /\ UNCHANGED <<world, dest, run, engine, fromDescriptorPaths, manifestBlob,
                   manifest, configFile, defers, err, rootfsArg, trace, storeOps,
                   calls, genMeta>>

\* rawConfig, lines 82-86: parse and set up the mapping options.
ParseIdmap ==
    /\ pc = "parse"
    /\ trace' = Append(trace, "parse")
    /\ \E arg \in IdmapArgs :
          LET r == ParseIdmapOptions(arg)
          IN  IF r.ok
              THEN /\ meta' = [meta EXCEPT !.MapOptions = r.opts]
                   /\ pc' = "open"
                   /\ err' = err
              ELSE /\ meta' = meta
                   /\ Fail(Err("InvalidMapping", ""))
    /\ UNCHANGED <<world, dest, run, fromName, engine, fromDescriptorPaths,
                   manifestBlob, manifest, configFile, defers, rootfsArg, storeOps,
                   calls, dest0, genMeta>>

\* rawConfig, lines 88-94: open the CAS and defer its Close.
OpenCAS ==
    /\ pc = "open"
    /\ trace' = Append(trace, "open")
    /\ storeOps' = Append(storeOps, "Open")
    /\ IF OpenOk(layout)
       THEN /\ engine' = "open"
            /\ calls' = [calls EXCEPT !.open = @ + 1]
            /\ defers' = DeferEngineClose(defers)
            /\ pc' = "resolve"
            /\ err' = err
       ELSE /\ Fail(Err("open CAS", ""))
            /\ UNCHANGED <<engine, calls, defers>>
    /\ UNCHANGED <<world, dest, run, fromName, meta, fromDescriptorPaths,
                   manifestBlob, manifest, configFile, rootfsArg, dest0,
                   genMeta>>

\* rawConfig, lines 96-99: resolve the reference.
Resolve ==
    /\ pc = "resolve"
    /\ trace' = Append(trace, "resolve")
    /\ storeOps' = Append(storeOps, "ResolveReference")
    /\ LET r == ResolveReference(layout, index, fromName)
       IN  IF r.ok
           THEN /\ fromDescriptorPaths' = r.paths
                /\ pc' = "count"
                /\ err' = err
           ELSE /\ Fail(Err("get descriptor", ""))
                /\ UNCHANGED fromDescriptorPaths
    /\ UNCHANGED <<world, dest, run, fromName, meta, engine, manifestBlob,
                   manifest, configFile, defers, rootfsArg, calls, dest0, genMeta>>

\* rawConfig, lines 100-107: exactly one path, which becomes meta.From.
CheckCount ==
    /\ pc = "count"
    /\ trace' = Append(trace, "count")
    /\ LET c == CountOutcome(fromDescriptorPaths)
       IN  IF c = "ok"
           THEN /\ meta' = [meta EXCEPT !.From = fromDescriptorPaths[1]]
                /\ pc' = "fetch"
                /\ err' = err
           ELSE /\ meta' = meta
                /\ Fail(Err(c, fromName))
    /\ UNCHANGED <<world, dest, run, fromName, engine, fromDescriptorPaths,
                   manifestBlob, manifest, configFile, defers, rootfsArg, storeOps,
                   calls, dest0, genMeta>>

\* rawConfig, lines 109-113: fetch the blob and defer its Close.
Fetch ==
    /\ pc = "fetch"
    /\ trace' = Append(trace, "fetch")
    /\ storeOps' = Append(storeOps, "FromDescriptor")
    /\ LET r == FromDescriptor(Descriptor(meta.From))
       IN  IF r.ok
           THEN /\ manifestBlob' = r.blob
                /\ defers' = DeferBlobClose(defers)
                /\ pc' = "mediatype"
                /\ err' = err
           ELSE /\ Fail(Err("get manifest", r.cause))
                /\ UNCHANGED <<manifestBlob, defers>>
    /\ UNCHANGED <<world, dest, run, fromName, meta, engine, fromDescriptorPaths,
                   manifest, configFile, rootfsArg, calls, dest0, genMeta>>

\* rawConfig, lines 115-117: only an image manifest is supported.
CheckMediaType ==
    /\ pc = "mediatype"
    /\ trace' = Append(trace, "mediatype")
    /\ IF MediaTypeSupported(manifestBlob)
       THEN pc' = "assert" /\ err' = err
       ELSE Fail(Err("invalid --image tag", manifestBlob.Descriptor.mediaType))
    /\ UNCHANGED <<world, dest, run, fromName, meta, engine, fromDescriptorPaths,
                   manifestBlob, manifest, configFile, defers, rootfsArg, storeOps,
                   calls, dest0, genMeta>>

\* rawConfig, lines 119-124: the decoded content must be an ispec.Manifest.
AssertManifest ==
    /\ pc = "assert"
    /\ trace' = Append(trace, "assert")
    /\ IF IsManifest(manifestBlob.Data)
       THEN /\ manifest' = manifestBlob.Data
            /\ pc' = "create"
            /\ err' = err
       ELSE /\ manifest' = manifest
            /\ Fail(Err("[internal error] unknown manifest blob type",
                        manifestBlob.Descriptor.mediaType))
    /\ UNCHANGED <<world, dest, run, fromName, meta, engine, fromDescriptorPaths,
                   manifestBlob, configFile, defers, rootfsArg, storeOps, calls,
                   dest0, genMeta>>

\* rawConfig, lines 126-131: create the destination and defer its Close.
CreateConfig ==
    /\ pc = "create"
    /\ trace' = Append(trace, "create")
    /\ calls' = [calls EXCEPT !.create = @ + 1]
    /\ \E creatable \in BOOLEAN :
          LET r == osCreate(dest, creatable)
          IN  /\ dest' = r.file
              /\ IF r.ok
                 THEN /\ configFile' = "open"
                      /\ defers' = DeferConfigClose(defers)
                      /\ pc' = "generate"
                      /\ err' = err
                 ELSE /\ Fail(Err("opening config path", ""))
                      /\ UNCHANGED <<configFile, defers>>
    /\ UNCHANGED <<world, run, fromName, meta, engine, fromDescriptorPaths,
                   manifestBlob, manifest, rootfsArg, storeOps, dest0,
                   genMeta>>

\* rawConfig, lines 133-138: generate the configuration into the file.
Generate ==
    /\ pc = "generate"
    /\ trace' = Append(trace, "generate")
    /\ storeOps' = Append(storeOps, "UnpackRuntimeJSON.read")
    /\ genMeta' = meta
    /\ \E rootfs \in RootfsArgs, sinkOk \in BOOLEAN :
          LET r == UnpackRuntimeJSON(dest, rootfs, manifest, meta.MapOptions, sinkOk)
          IN  /\ rootfsArg' = rootfs
              /\ dest' = r.file
              /\ calls' = [calls EXCEPT !.unpack = @ + 1,
                                        !.write = @ + Len(r.file.data) - Len(dest.data)]
              /\ IF r.ok
                 THEN pc' = "return" /\ err' = Nil
                 ELSE Fail(Err("generate config", r.cause))
    /\ UNCHANGED <<world, run, fromName, meta, engine, fromDescriptorPaths,
                   manifestBlob, manifest, configFile, defers, dest0>>

\* The deferred calls run, most recent first, and rawConfig returns err.
Return ==
    /\ pc = "return"
    /\ pc' = "returned"
    /\ defers' = <<>>
    /\ engine' = IF "engine.Close" \in Range(defers) THEN "closed" ELSE engine
    /\ configFile' = IF "configFile.Close" \in Range(defers) THEN "closed" ELSE configFile
    /\ storeOps' = storeOps \o SelectSeq(defers, LAMBDA c : c = "engine.Close")
    /\ calls' = [calls EXCEPT !.engineClose = @ + Count(defers, "engine.Close"),
                              !.configClose = @ + Count(defers, "configFile.Close"),
                              !.blobClose = @ + Count(defers, "manifestBlob.Close")]
    /\ UNCHANGED <<world, dest, run, fromName, meta, fromDescriptorPaths,
                   manifestBlob, manifest, err, rootfsArg, trace, dest0,
                   genMeta>>

\* The command is invoked again on the same layout and destination.
NextRun ==
    /\ pc = "returned"
    /\ run < MaxRuns
    /\ run' = run + 1
    /\ pc' = "start"
    /\ fromName' = ""
    /\ meta' = NoMeta
    /\ engine' = "none"
    /\ fromDescriptorPaths' = <<>>
    /\ manifestBlob' = NoBlob
    /\ manifest' = NoData
    /\ configFile' = "none"
    /\ defers' = <<>>
    /\ err' = Nil
    /\ rootfsArg' = ""
    /\ trace' = <<>>
    /\ storeOps' = <<>>
    /\ calls' = NoCalls
    /\ dest0' = dest
    /\ genMeta' = NoMeta
    /\ UNCHANGED <<world, dest>>

Next ==
    \/ Begin
    \/ ParseIdmap
    \/ OpenCAS
    \/ Resolve
    \/ CheckCount
    \/ Fetch
    \/ CheckMediaType
    \/ AssertManifest
    \/ CreateConfig
    \/ Generate
    \/ Return
    \/ NextRun

Spec == Init /\ [][Next]_vars

\* --------------------------------------------------------------- claims
Exiting == pc \in {"return", "returned"}

\* ResolveReference was called and returned a list of paths (no error).
ResolvedOk == "resolve" \in Range(trace) /\ err.kind # "get descriptor"

IsPrefix(s, t) == Len(s) <= Len(t) /\ \A i \in DOMAIN s : s[i] = t[i]

PreCreateErrors ==
    {"InvalidMapping", "open CAS", "get descriptor", "tag not found",
     "tag is ambiguous", "get manifest", "invalid --image tag",
     "[internal error] unknown manifest blob type"}

\* C1: when the store returns zero descriptor paths for the reference, the
\* run ends with the error "tag not found: <name>" and FromDescriptor is
\* never called in that run.
C1_NotFoundNoFetch ==
    (ResolvedOk /\ Len(fromDescriptorPaths) = 0) =>
        /\ "FromDescriptor" \notin Range(storeOps)
        /\ manifestBlob = NoBlob
        /\ pc \in {"count", "return", "returned"}
        /\ Exiting => err = Err("tag not found", fromName)

C1_Witness ==
    /\ pc = "returned"
    /\ ResolvedOk
    /\ Len(fromDescriptorPaths) = 0
    /\ Len(index) > 0
    /\ err = Err("tag not found", fromName)

\* C2: when the store returns two or more descriptor paths, the run ends
\* with the error "tag is ambiguous: <name>"; meta.From is never assigned a
\* candidate and no blob is fetched.
C2_AmbiguousNeverSelects ==
    (ResolvedOk /\ Len(fromDescriptorPaths) >= 2) =>
        /\ meta.From = NoPath
        /\ "FromDescriptor" \notin Range(storeOps)
        /\ manifestBlob = NoBlob
        /\ pc \in {"count", "return", "returned"}
        /\ Exiting => err = Err("tag is ambiguous", fromName)

C2_Witness ==
    /\ pc = "returned"
    /\ ResolvedOk
    /\ Len(fromDescriptorPaths) >= 2
    /\ Descriptor(fromDescriptorPaths[1]).digest = "m-ok"
    /\ err = Err("tag is ambiguous", fromName)

\* C3: when exactly one path is resolved and the fetched blob's media type
\* is not the image-manifest type (an index included), the run ends with the
\* unsupported-media-type error carrying the actual media type, and
\* UnpackRuntimeJSON is never reached.
C3_UnsupportedMediaType ==
    (manifestBlob # NoBlob
        /\ manifestBlob.Descriptor.mediaType # MediaTypeImageManifest) =>
        /\ Len(fromDescriptorPaths) = 1
        /\ calls.unpack = 0
        /\ calls.create = 0
        /\ "generate" \notin Range(trace)
        /\ pc \in {"mediatype", "return", "returned"}
        /\ Exiting =>
              err = Err("invalid --image tag", manifestBlob.Descriptor.mediaType)

C3_Witness ==
    /\ pc = "returned"
    /\ manifestBlob # NoBlob
    /\ manifestBlob.Descriptor.mediaType = MediaTypeImageIndex
    /\ err = Err("invalid --image tag", MediaTypeImageIndex)

\* C4: a store handle that was opened is closed exactly once before
\* rawConfig returns, whatever the exit path; it is not closed earlier and
\* a handle that was never opened is never closed.
C4_EngineClosedOnce ==
    /\ calls.open <= 1
    /\ pc # "returned" => calls.engineClose = 0
    /\ pc = "returned" =>
          /\ calls.engineClose = calls.open
          /\ calls.open = 1 => engine = "closed"
          /\ calls.open = 0 => engine = "none"
    /\ (pc # "returned" /\ calls.open = 1) => engine = "open"

C4_Witness ==
    /\ pc = "returned"
    /\ calls.open = 1
    /\ calls.engineClose = 1
    /\ engine = "closed"
    /\ err.kind = "tag is ambiguous"

\* C5: a run whose reference resolves to more than one path creates no
\* output file; the destination is created only after parsing, open,
\* resolution, fetch, media-type check and type assertion all succeeded, and
\* a failure in any of those stages leaves the destination as it was.
C5_NoFileBeforeResolution ==
    /\ (ResolvedOk /\ Len(fromDescriptorPaths) > 1) =>
          dest = dest0 /\ calls.create = 0
    /\ calls.create > 0 =>
          /\ IsPrefix(SubSeq(StageOrder, 1, 8), trace)
          /\ engine # "none"
          /\ Len(fromDescriptorPaths) = 1
          /\ manifestBlob.Descriptor.mediaType = MediaTypeImageManifest
          /\ manifest = manifestBlob.Data
          /\ manifest.type = "ispec.Manifest"
    /\ (Exiting /\ err.kind \in PreCreateErrors) =>
          dest = dest0 /\ calls.create = 0

C5_Witness ==
    /\ pc = "returned"
    /\ ResolvedOk
    /\ Len(fromDescriptorPaths) > 1
    /\ dest0 = AbsentFile
    /\ dest = AbsentFile

\* C6 as stated: a run given a --rootfs that does not exist fails with the
\* generate-config error and leaves the destination file neither created
\* nor truncated nor written.
C6_DestinationUntouched ==
    (pc = "returned" /\ rootfsArg = "/nonexistent") =>
        /\ err.kind = "generate config"
        /\ dest = dest0

\* C6 amended: a run given a --rootfs that does not exist fails with the
\* generate-config error and writes no document; the destination was
\* already created or truncated by os.Create and is left empty.
C6_NoDocumentWritten ==
    (Exiting /\ rootfsArg = "/nonexistent") =>
        /\ err = Err("generate config", "SecondaryFsUnavailable")
        /\ calls.write = 0
        /\ dest = [exists |-> TRUE, data |-> <<>>]

C6_Witness ==
    /\ pc = "returned"
    /\ rootfsArg = "/nonexistent"
    /\ dest0 = OldFile
    /\ dest = [exists |-> TRUE, data |-> <<>>]
    /\ err.kind = "generate config"

\* C7: for a single resolved path whose blob is present, a declared media
\* type other than the image manifest yields the unsupported-media-type
\* error whether or not the blob decodes, and a manifest-typed blob that
\* does not decode yields a different (corrupt) error.
C7_MediaTypeBeforeDecode ==
    (pc = "returned" /\ meta.From # NoPath
        /\ BlobTable[Descriptor(meta.From).digest].present) =>
        LET d == Descriptor(meta.From)
        IN  /\ d.mediaType # MediaTypeImageManifest =>
                  err.kind = "invalid --image tag"
            /\ (d.mediaType = MediaTypeImageManifest
                   /\ ~BlobTable[d.digest].wellFormed) =>
                  err.kind \in {"get manifest",
                                "[internal error] unknown manifest blob type"}

\* C8: a run that reports success opened the output file once, called
\* UnpackRuntimeJSON once, which wrote one complete document, and closed
\* the file before returning nil; a run whose generation or write fails
\* returns that error after the one attempt: the file is not opened or
\* written a second time, a failed write leaves its partial serialization,
\* and the file is still closed at return.
C8_SinkOnce ==
    /\ calls.create <= 1
    /\ calls.unpack <= 1
    /\ calls.write <= 1
    /\ pc # "returned" => calls.configClose = 0
    /\ (pc = "returned" /\ err = Nil) =>
          /\ calls.create = 1
          /\ calls.unpack = 1
          /\ calls.write = 1
          /\ calls.configClose = 1
          /\ configFile = "closed"
          /\ Len(dest.data) = 1
          /\ dest.data[1].complete
    /\ err.kind = "generate config" =>
          /\ Exiting
          /\ calls.create = 1
          /\ calls.unpack = 1
          /\ pc = "returned" => calls.configClose = 1 /\ configFile = "closed"
          /\ IF err.arg = "SinkError"
             THEN /\ calls.write = 1
                  /\ Len(dest.data) = 1
                  /\ ~dest.data[1].complete
             ELSE /\ calls.write = 0
                  /\ dest.data = <<>>

\* A run whose write failed, following a run that succeeded: the document
\* the first run wrote was truncated and a partial one is left.
C8_Witness ==
    /\ pc = "returned"
    /\ run = 2
    /\ err = Err("generate config", "SinkError")
    /\ Len(dest0.data) = 1
    /\ dest0.data[1].complete
    /\ dest0.data[1].image = "m-ok"
    /\ calls.write = 1
    /\ configFile = "closed"
    /\ ~dest.data[1].complete

\* C10: the stages run in source order, each at most once; the first
\* failure ends the run; a mapping-parse failure happens before the store
\* is opened; generation is invoked only with meta.Version = MetaVersion
\* and meta.From the single resolved path.
C10_StageOrder ==
    /\ IsPrefix(trace, StageOrder)
    /\ err # Nil => Exiting
    /\ err.kind = "InvalidMapping" =>
          trace = <<"parse">> /\ engine = "none" /\ storeOps = <<>>
    /\ "open" \in Range(trace) => meta.Version = MetaVersion
    /\ "generate" \in Range(trace) =>
          /\ genMeta.Version = MetaVersion
          /\ Len(fromDescriptorPaths) = 1
          /\ genMeta.From = fromDescriptorPaths[1]
          /\ genMeta = meta
    /\ (pc = "returned" /\ err = Nil) => trace = StageOrder

C10_Witness ==
    /\ pc = "returned"
    /\ err = Nil
    /\ trace = StageOrder
    /\ genMeta.Version = MetaVersion
    /\ genMeta.MapOptions.UIDMappings # <<>>

====
